---- MODULE Spec2Model ----
(***************************************************************************)
(* One call of the QUADPACK integrator DQAGP (libcruft/quadpack/dqagp.f).  *)
(* DQAGP is the dimensioning wrapper: it checks LENIW, LENW and NPTS2,     *)
(* slices WORK and IWORK and hands them to the driver DQAGPE, then calls   *)
(* the error handler XERROR.  The driver DQAGPE is not part of the source  *)
(* at hand; its steps are modelled from the design text (sections 4.1 to   *)
(* 4.4 and 7) and from the prologue of DQAGP, which documents what the     *)
(* driver leaves in IER, LAST, WORK and IWORK.                             *)
(*                                                                         *)
(* Reals are modelled by integers on a grid: abscissae are multiples of a  *)
(* power of two, so that every midpoint of a bisection is exact, and the   *)
(* local rule's results and error estimates are drawn from small sets.     *)
(*                                                                         *)
(* Spec and FairSpec are one call of DQAGP.  PermSpec is a caller making   *)
(* two calls on the same integrand with the break points reordered: what   *)
(* the integrand returned during the first call is kept and returned again *)
(* wherever the second call evaluates it on the same interval.             *)
(***************************************************************************)
EXTENDS Integers, Sequences, FiniteSets, TLC

VARIABLES
  pc,        \* position of the call inside DQAGP / DQAGPE
  A, B, NPTS2, POINTS, EPSABS, EPSREL, LENIW, LENW,   \* arguments on entry
  RESULT, ABSERR, NEVAL, IER, LAST,                   \* arguments on return
  IWORK, WORK,                                        \* work arrays
  LIMIT, LVL,                                         \* locals of DQAGP
  dqagpe,    \* number of invocations of the driver DQAGPE
  xerror,    \* the calls of XERROR, each <<IER, LVL>>
  area, errsum,   \* driver: running global approximation and error bound
  segid,     \* driver: segment_id of every live record
  k,         \* driver: index of the initial segment evaluated next
  maxerr,    \* driver: index of the record selected for bisection
  half1,     \* driver: the local rule's outcome on the left half
  reseps,    \* driver: extrapolated estimate, or NoExtrap
  nrule,     \* number of local rule invocations started so far
  failedAt,  \* value of nrule at the failing invocation, 0 when none failed
  call,      \* the caller: number of the call of DQAGP in progress
  ncalls,    \* the caller: number of calls it makes with the same integrand
  integrand, \* what the integrand returned so far, kept for a next call
  first,     \* the caller: arguments on return from the first call
  mbn,       \* mustBeNonnegative: position of the call
  x,         \* mustBeNonnegative: the input, its elements in linear order
  tf,        \* mustBeNonnegative: the element-wise test x >= 0
  errmsg,    \* mustBeNonnegative: message of the error raised, or NoError
  gui,       \* GUI thread: position inside octave_qapplication::notify
  ev,        \* GUI thread: what QApplication::notify did with the event
  notified,  \* the calls of notify that ended, each with how it ended
  signals,   \* the interpreter_event signals emitted, each its callback
  queue,     \* the interpreter's queue of events still to be executed
  interp,    \* interpreter thread: what each executed callback threw
  kind,      \* the application object constructed: "cli", "gui" or "none"
  ctor,      \* GUI thread: number of constructor statements executed
  connected, \* the signal-slot connections made
  m_translators_installed,   \* member of base_qobject
  installed, \* the translators installed on the application, in order
  configured,   \* number of calls of resource_manager::config_translators
  trcalls,   \* number of calls of base_qobject::config_translators
  m_main_thread,   \* the interpreter thread: "new", "started" or "quit"
  execute,   \* interpreter_qobject::execute: "none", "scheduled", "running"
             \* or "done"
  emitted,   \* the signals the interpreter object emitted
  posted,    \* GUI thread: the queued slot invocations not yet run
  lost,      \* the signals emitted while no slot was connected to them
  loop,      \* the application's event loop: "none", "running", "exited"
  exit_status,  \* the status the event loop was told to exit with
  handled    \* GUI thread: what the slots that ran did, in order

vars == <<pc, A, B, NPTS2, POINTS, EPSABS, EPSREL, LENIW, LENW,
          RESULT, ABSERR, NEVAL, IER, LAST, IWORK, WORK, LIMIT, LVL,
          dqagpe, xerror, area, errsum, segid, k, maxerr, half1, reseps,
          nrule, failedAt, call, ncalls, integrand, first,
          mbn, x, tf, errmsg, gui, ev, notified, signals, queue, interp,
          kind, ctor, connected, m_translators_installed, installed,
          configured, trcalls, m_main_thread, execute, emitted, posted, lost,
          loop, exit_status, handled>>

inputs == <<A, B, NPTS2, POINTS, EPSABS, EPSREL, LENIW, LENW>>
outputs == <<RESULT, ABSERR, NEVAL, IER, LAST>>
driver == <<area, errsum, segid, k, maxerr, half1, reseps>>
caller == <<call, ncalls, first>>
nonneg == <<mbn, x, tf, errmsg>>
\* the state of a call of DQAGP and of its caller
quad == <<pc, inputs, outputs, IWORK, WORK, LIMIT, LVL, dqagpe, xerror, driver,
          nrule, failedAt, caller, integrand>>
qapp == <<gui, ev, notified, signals, queue, interp>>
translators == <<m_translators_installed, installed, configured, trcalls>>
qobj == <<kind, ctor, connected, translators, m_main_thread, execute, emitted,
          posted, lost, loop, exit_status, handled>>
\* the state of the other programs of the repository
elsewhere == <<nonneg, qapp, qobj>>

----------------------------------------------------------------------------
(* Bounds of the model *)

\* most calls of base_qobject::config_translators on one object
MaxCalls == 3

\* largest NPTS2 tried (two more than the number of break points)
MaxNPTS2 == 4
\* largest capacity LIMIT of the record store tried
MaxLIMIT == 3
\* largest number of elements of the input of mustBeNonnegative tried
MaxNumel == 3
\* largest number of events delivered through notify tried
MaxEvents == 3

(* Values *)

\* what a local or a work array element holds before the program assigns it
\* (no value the program computes)
Undef == -99
\* what the caller may have left in the output arguments before the call
CallerVals == {7}
\* no extrapolated estimate is available (otherwise <<estimate>>)
NoExtrap == << >>
\* no outcome of the local rule is held
NoOutcome == [approx |-> Undef, err |-> Undef, fails |-> FALSE]
\* the integrand has not been evaluated yet
NothingSeen == [rule |-> << >>, class |-> << >>, extrap |-> << >>]
\* the caller holds no answer of an earlier call
NoAnswer == [POINTS |-> << >>, RESULT |-> Undef, ABSERR |-> Undef,
             NEVAL |-> Undef, LAST |-> Undef, IER |-> Undef]
\* no error has been raised
NoError == [label |-> "", count |-> 0, listed |-> << >>]
\* mustBeNonnegative is not being called
NonnegIdle == mbn = "idle" /\ x = << >> /\ tf = << >> /\ errmsg = NoError
\* no event is being delivered
NoEvent == [kind |-> "none", val |-> FALSE, id |-> 0]
\* the application object exists, connected, and delivers no event
QAppIdle ==
  /\ gui = "idle" /\ ev = NoEvent
  /\ notified = << >> /\ signals = << >> /\ queue = << >> /\ interp = << >>
\* no application object is under construction
QObjectIdle ==
  /\ kind = "none" /\ ctor = 0 /\ connected = {}
  /\ m_translators_installed = FALSE /\ installed = << >>
  /\ configured = 0 /\ trcalls = 0
  /\ m_main_thread = "new" /\ execute = "none"
  /\ emitted = << >> /\ posted = << >> /\ lost = << >>
  /\ loop = "none" /\ exit_status = Undef /\ handled = << >>
\* no abnormal behaviour is detected in an iteration
NoneDetected == 0

Max(u, v) == IF u >= v THEN u ELSE v
Abs(u) == IF u >= 0 THEN u ELSE -u

\* abscissae are multiples of Grid, so the midpoints of the bisections a
\* store of MaxLIMIT records allows are exact
Grid == 2 ^ MaxLIMIT
PointVals == {-Grid, 0, Grid, 3 * Grid}
EpsabsVals == {-1, 0, 1}
EpsrelVals == {0, 1}
ApproxVals == {-1, 1}
ErrVals == {0, 2}
ExtrapVals == {0}

----------------------------------------------------------------------------
(* DQAGP: the dimensioning wrapper *)

\* the dimension test with LENIW-NPTS2 written for LENIW*2-NPTS2
DimensionInvalid_LenwSingle ==
  LENIW < (3 * NPTS2 - 2) \/ LENW < (LENIW - NPTS2) \/ NPTS2 < 2

\* the dimension test with LENIW.LE. written for LENIW.LT.
DimensionInvalid_LeniwLE ==
  LENIW <= (3 * NPTS2 - 2) \/ LENW < (LENIW * 2 - NPTS2) \/ NPTS2 < 2

\* the dimension test with LENW.LE. written for LENW.LT.
DimensionInvalid_LenwLE ==
  LENIW < (3 * NPTS2 - 2) \/ LENW <= (LENIW * 2 - NPTS2) \/ NPTS2 < 2

\* the dimension test with NPTS2.LE.2 written for NPTS2.LT.2
DimensionInvalid_Npts2LE ==
  LENIW < (3 * NPTS2 - 2) \/ LENW < (LENIW * 2 - NPTS2) \/ NPTS2 <= 2

\* the dimension test with 3*NPTS2-3 written for 3*NPTS2-2
DimensionInvalid_LeniwLoose ==
  LENIW < (3 * NPTS2 - 3) \/ LENW < (LENIW * 2 - NPTS2) \/ NPTS2 < 2

\* the dimension test without its test of LENW
DimensionInvalid_NoLenw ==
  LENIW < (3 * NPTS2 - 2) \/ NPTS2 < 2

\* IF(LENIW.LT.(3*NPTS2-2).OR.LENW.LT.(LENIW*2-NPTS2).OR.NPTS2.LT.2) GO TO 10
DimensionInvalid ==
  LENIW < (3 * NPTS2 - 2) \/ LENW < (LENIW * 2 - NPTS2) \/ NPTS2 < 2

\* LIMIT without the NPTS2 elements set aside for the break points
LimitOf_NoPoints(leniw, npts2) == leniw \div 2

\* LIMIT rounded up instead of truncated
LimitOf_RoundUp(leniw, npts2) == (leniw - npts2 + 1) \div 2

\* LIMIT = (LENIW-NPTS2)/2
LimitOf(leniw, npts2) == (leniw - npts2) \div 2

\* lines 209-212: where the slices of WORK and IWORK handed to DQAGPE start

\* the slice of the right end points starting on the last left end point
L1_OnLeftEnds == LIMIT

L1 == LIMIT + 1

\* the slice of the approximations starting where the right end points start
L2_OnRightEnds == L1

L2 == LIMIT + L1

\* the slice of the error estimates starting where the approximations start
L3_OnApproximations == L2

L3 == LIMIT + L2

\* the slice of the sorted points starting where the error estimates start
L4_OnErrors == L3

L4 == LIMIT + L3

\* the state at the call of DQAGP, the first of n calls the caller makes
Start(n) ==
  /\ pc = "entry"
  /\ A = 0
  /\ B = 2 * Grid
  /\ NPTS2 \in 1..MaxNPTS2
  /\ POINTS \in [1..Max(NPTS2 - 2, 0) -> PointVals]
  /\ LENIW \in (3 * NPTS2 - 3)..(2 * MaxLIMIT + NPTS2 + 1)
  /\ LENW \in {2 * LENIW - NPTS2 - 1, 2 * LENIW - NPTS2}
  /\ EPSABS \in EpsabsVals
  /\ EPSREL \in EpsrelVals
  /\ RESULT \in CallerVals /\ ABSERR \in CallerVals /\ NEVAL \in CallerVals
  /\ IER \in CallerVals /\ LAST \in CallerVals
  /\ IWORK = [i \in 1..LENIW |-> Undef]
  /\ WORK = [i \in 1..LENW |-> Undef]
  /\ LIMIT = Undef /\ LVL = Undef
  /\ dqagpe = 0
  /\ xerror = << >>
  /\ area = 0 /\ errsum = 0
  /\ segid = << >>
  /\ k = 0 /\ maxerr = 0
  /\ half1 = NoOutcome
  /\ reseps = NoExtrap
  /\ nrule = 0 /\ failedAt = 0
  /\ call = 1 /\ ncalls = n
  /\ integrand = NothingSeen
  /\ first = NoAnswer
  /\ NonnegIdle
  /\ QAppIdle
  /\ QObjectIdle

\* one call of DQAGP
Init == Start(1)

\* the presets without LAST = 0
DQAGP_Entry_NoLast ==
  /\ pc = "entry"
  /\ IER' = 6
  /\ NEVAL' = 0
  /\ LAST' = LAST
  /\ RESULT' = 0
  /\ ABSERR' = 0
  /\ pc' = IF DimensionInvalid THEN "L10" ELSE "prepare"
  /\ UNCHANGED <<inputs, IWORK, WORK, LIMIT, LVL, dqagpe, xerror, driver,
                 nrule, failedAt, caller, integrand, elsewhere>>

\* the presets without ABSERR = 0.0D+00
DQAGP_Entry_NoAbserr ==
  /\ pc = "entry"
  /\ IER' = 6
  /\ NEVAL' = 0
  /\ LAST' = 0
  /\ RESULT' = 0
  /\ ABSERR' = ABSERR
  /\ pc' = IF DimensionInvalid THEN "L10" ELSE "prepare"
  /\ UNCHANGED <<inputs, IWORK, WORK, LIMIT, LVL, dqagpe, xerror, driver,
                 nrule, failedAt, caller, integrand, elsewhere>>

\* lines 198-204: preset the outputs to the IER = 6 answer, check dimensions
DQAGP_Entry ==
  /\ pc = "entry"
  /\ IER' = 6
  /\ NEVAL' = 0
  /\ LAST' = 0
  /\ RESULT' = 0
  /\ ABSERR' = 0
  /\ pc' = IF DimensionInvalid THEN "L10" ELSE "prepare"
  /\ UNCHANGED <<inputs, IWORK, WORK, LIMIT, LVL, dqagpe, xerror, driver,
                 nrule, failedAt, caller, integrand, elsewhere>>

\* lines 208-216: compute LIMIT and the slice offsets, CALL DQAGPE
DQAGP_Prepare ==
  /\ pc = "prepare"
  /\ LIMIT' = LimitOf(LENIW, NPTS2)
  /\ dqagpe' = dqagpe + 1
  /\ pc' = "dqagpe"
  /\ UNCHANGED <<inputs, outputs, IWORK, WORK, LVL, xerror, driver,
                 nrule, failedAt, caller, integrand, elsewhere>>

----------------------------------------------------------------------------
(* DQAGPE: the driver (design sections 4.1 to 4.4, prologue of DQAGP) *)

\* status of a call aborted by an integrand evaluation failure
IerEvalFailure == -1

\* EPSABS.LE.0 AND EPSREL.LT.MAX(50*REL.MACH.ACC.,0.5D-28), in model units
EpsrelFloor == 1
AccuracyInvalid == EPSABS <= 0 /\ EPSREL < EpsrelFloor

\* a break point is specified outside the integration range
PointsOutside == \E i \in DOMAIN POINTS : POINTS[i] < A \/ POINTS[i] > B

\* insertion of v into the ascending sequence s
RECURSIVE InsertSorted(_, _)
InsertSorted(v, s) ==
  IF s = << >> THEN <<v>>
  ELSE IF v <= Head(s) THEN <<v>> \o s
  ELSE <<Head(s)>> \o InsertSorted(v, Tail(s))

\* the sequence s sorted into an ascending sequence
RECURSIVE SortAscending(_)
SortAscending(s) ==
  IF s = << >> THEN << >>
  ELSE InsertSorted(Head(s), SortAscending(Tail(s)))

\* the integration limits and the break points, ascending
SortedPoints(a, b, points) == SortAscending(<<a>> \o points \o <<b>>)

\* lines 214-216: the slices WORK(1), WORK(L1), WORK(L2), WORK(L3), WORK(L4)
\* and IWORK(L1) as the driver sees them (left end points, right end points,
\* approximations, error estimates, sorted points, subdivision levels)
alist(i) == WORK[i]
blist(i) == WORK[L1 + i - 1]
rlist(i) == WORK[L2 + i - 1]
elist(i) == WORK[L3 + i - 1]
pts(i) == WORK[L4 + i - 1]
level(i) == IWORK[L1 + i - 1]

\* WORK with record i set to [left, right, approx, error_estimate]
PutRecord(w, i, left, right, approx, err) ==
  [w EXCEPT ![i] = left, ![L1 + i - 1] = right,
            ![L2 + i - 1] = approx, ![L3 + i - 1] = err]

RECURSIVE SumTo(_, _, _)
SumTo(w, base, n) ==
  IF n = 0 THEN 0 ELSE w[base + n - 1] + SumTo(w, base, n - 1)
\* sum of approx, and of error_estimate, over the n live records of w
SumApprox(w, n) == SumTo(w, L2, n)
SumError(w, n) == SumTo(w, L3, n)

\* the integrand signalled an evaluation failure inside the local rule
Failure == [approx |-> 0, err |-> 0, fails |-> TRUE]

\* local quadrature rule on [left, right]: the outcomes it can return
Rule(left, right) ==
  {Failure} \cup
  (IF left = right THEN {[approx |-> 0, err |-> 0, fails |-> FALSE]}
   ELSE [approx : ApproxVals, err : ErrVals, fails : {FALSE}])

\* the integrand is fixed: on an interval it was evaluated on before, the
\* local rule returns what it returned then
RuleOutcomes(left, right) ==
  IF <<left, right>> \in DOMAIN integrand.rule
  THEN {integrand.rule[<<left, right>>]}
  ELSE Rule(left, right)

\* the abnormal behaviour the driver detects in the iteration with n live
\* records: none before the first bisection, a function of the integrand
Classified(n) ==
  IF n \in DOMAIN integrand.class THEN {integrand.class[n]}
  ELSE IF n > NPTS2 - 1 THEN {NoneDetected} \cup (2..5)
  ELSE {NoneDetected}

\* the extrapolated estimate after the bisection that leaves n live records
Extrapolated(n) ==
  IF n \in DOMAIN integrand.extrap THEN {integrand.extrap[n]}
  ELSE {NoExtrap} \cup {<<e>> : e \in ExtrapVals}

\* the integrand's behaviour is kept while the caller has a call to come
Seen(f, key, value) == IF call < ncalls THEN f @@ (key :> value) ELSE f

\* global_error_bound <= max(epsabs, epsrel * |global_approx|)
Converged == errsum <= Max(EPSABS, EPSREL * Abs(area))

\* best available estimate: extrapolated if available, else the raw sum
BestEstimate == IF reseps # NoExtrap THEN reseps[1] ELSE area

\* record i comes before record j in the selection order: larger error
\* estimate, then smaller segment_id, then leftmost interval
Before(i, j) ==
  \/ elist(i) > elist(j)
  \/ elist(i) = elist(j) /\ segid[i] < segid[j]
  \/ elist(i) = elist(j) /\ segid[i] = segid[j] /\ alist(i) < alist(j)

\* the live record selected for bisection
Selected == CHOOSE i \in 1..LAST : \A j \in (1..LAST) \ {i} : Before(i, j)

\* Before, on the store w with the segment ids ids
BeforeIn(w, ids, i, j) ==
  \/ w[L3 + i - 1] > w[L3 + j - 1]
  \/ w[L3 + i - 1] = w[L3 + j - 1] /\ ids[i] < ids[j]
  \/ w[L3 + i - 1] = w[L3 + j - 1] /\ ids[i] = ids[j] /\ w[i] < w[j]

\* the position of record i among the n live records, largest error first
Rank(w, ids, n, i) ==
  1 + Cardinality({j \in 1..n : BeforeIn(w, ids, j, i)})

\* the number of pointers kept with one half of the store counted one short
K_HalfShort(n) ==
  IF n <= LIMIT \div 2 + 1 THEN n ELSE LIMIT + 1 - n

\* the number of pointers kept in descending order with n live records:
\* K = LAST IF LAST.LE.(LIMIT/2+2), AND K = LIMIT+1-LAST OTHERWISE
K(n) ==
  IF n <= LIMIT \div 2 + 2 THEN n ELSE LIMIT + 1 - n

\* iw with its first K elements pointing to the error estimates of the n live
\* records of w in decreasing order; the other elements are not written
Pointers(iw, w, ids, n) ==
  [p \in DOMAIN iw |->
     IF p <= K(n)
     THEN CHOOSE i \in 1..n : Rank(w, ids, n, i) = p
     ELSE iw[p]]

\* an evaluation failure whose status reads as a normal termination
Abort_AsSuccess ==
  /\ IER' = 0
  /\ failedAt' = nrule + 1
  /\ pc' = "L220"

\* the integrand signalled an evaluation failure: fatal, the driver returns
Abort ==
  /\ IER' = IerEvalFailure
  /\ failedAt' = nrule + 1
  /\ pc' = "L220"

\* entry of the driver: outputs and the first record preset, input validated
DQAGPE_Validate ==
  /\ pc = "dqagpe"
  /\ NEVAL' = 0
  /\ LAST' = 0
  /\ RESULT' = 0
  /\ ABSERR' = 0
  /\ WORK' = [WORK EXCEPT ![1] = A, ![L1] = B, ![L2] = 0, ![L3] = 0]
  /\ IWORK' = [IWORK EXCEPT ![1] = 0, ![L1] = 0]
  /\ IF NPTS2 < 2 \/ PointsOutside \/ AccuracyInvalid
     THEN IER' = 6 /\ pc' = "L220"
     ELSE IER' = 0 /\ pc' = "sort"
  /\ UNCHANGED <<inputs, LIMIT, LVL, dqagpe, xerror, driver, nrule, failedAt,
                 caller, integrand, elsewhere>>

\* the limits and break points sorted into WORK(LIMIT*4+1..LIMIT*4+NPTS2)
DQAGPE_Sort ==
  /\ pc = "sort"
  /\ LET sorted == SortedPoints(A, B, POINTS)
     IN WORK' = [i \in DOMAIN WORK |->
                   IF i \in L4..(L4 + NPTS2 - 1)
                   THEN sorted[i - L4 + 1] ELSE WORK[i]]
  /\ k' = 1
  /\ pc' = "initial"
  /\ UNCHANGED <<inputs, outputs, IWORK, LIMIT, LVL, dqagpe, xerror,
                 area, errsum, segid, maxerr, half1, reseps, nrule, failedAt,
                 caller, integrand, elsewhere>>

\* the local rule on initial segment k; after the last one, LAST = NPTS2-1
DQAGPE_Initial ==
  /\ pc = "initial"
  /\ nrule' = nrule + 1
  /\ \E o \in RuleOutcomes(pts(k), pts(k + 1)) :
       /\ integrand' = [integrand EXCEPT
                          !.rule = Seen(@, <<pts(k), pts(k + 1)>>, o)]
       /\ IF o.fails
          THEN /\ Abort
               /\ UNCHANGED <<RESULT, ABSERR, NEVAL, LAST, IWORK, WORK,
                              driver>>
          ELSE /\ WORK' = PutRecord(WORK, k, pts(k), pts(k + 1),
                                    o.approx, o.err)
               /\ segid' = Append(segid, k)
               /\ IWORK' = IF k = NPTS2 - 1
                            THEN Pointers([IWORK EXCEPT ![L1 + k - 1] = 0],
                                          WORK', segid', k)
                            ELSE [IWORK EXCEPT ![L1 + k - 1] = 0]
               /\ area' = area + o.approx
               /\ errsum' = errsum + o.err
               /\ NEVAL' = NEVAL + 1
               /\ IF k = NPTS2 - 1
                  THEN LAST' = k /\ k' = k /\ pc' = "test"
                  ELSE LAST' = LAST /\ k' = k + 1 /\ pc' = "initial"
               /\ UNCHANGED <<RESULT, ABSERR, IER, maxerr, half1, reseps,
                              failedAt>>
  /\ UNCHANGED <<inputs, LIMIT, LVL, dqagpe, xerror, caller, elsewhere>>

\* termination with status ier: the result state is populated
Terminate(ier) ==
  /\ IER' = ier
  /\ RESULT' = BestEstimate
  /\ ABSERR' = errsum
  /\ pc' = "L220"
  /\ UNCHANGED <<inputs, NEVAL, LAST, IWORK, WORK, LIMIT, LVL, dqagpe, xerror,
                 driver, nrule, failedAt, caller, elsewhere>>

\* termination test, then the abnormal classifications of an iteration
DQAGPE_Test ==
  /\ pc = "test"
  /\ IF Converged
     THEN Terminate(0) /\ UNCHANGED integrand
     ELSE \E ier \in Classified(LAST) :
            /\ integrand' = [integrand EXCEPT !.class = Seen(@, LAST, ier)]
            /\ IF ier # NoneDetected
               THEN Terminate(ier)
               ELSE /\ pc' = "bisect"
                    /\ UNCHANGED <<inputs, outputs, IWORK, WORK, LIMIT, LVL,
                                   dqagpe, xerror, driver, nrule, failedAt,
                                   caller, elsewhere>>

\* selection of the record with the largest error estimate; a full store
\* ends the call with IER = 1; otherwise the local rule on the left half
DQAGPE_Bisect ==
  /\ pc = "bisect"
  /\ IF LAST = LIMIT
     THEN Terminate(1) /\ UNCHANGED integrand
     ELSE /\ maxerr' = Selected
          /\ nrule' = nrule + 1
          /\ LET left == alist(Selected)
                 mid == (alist(Selected) + blist(Selected)) \div 2
             IN \E o \in RuleOutcomes(left, mid) :
                  /\ integrand' = [integrand EXCEPT
                                     !.rule = Seen(@, <<left, mid>>, o)]
                  /\ IF o.fails
                     THEN /\ Abort
                          /\ UNCHANGED half1
                     ELSE /\ half1' = o
                          /\ pc' = "bisect2"
                          /\ UNCHANGED <<IER, failedAt>>
          /\ UNCHANGED <<inputs, RESULT, ABSERR, NEVAL, LAST, IWORK, WORK,
                         LIMIT, LVL, dqagpe, xerror, area, errsum, segid, k,
                         reseps, caller, elsewhere>>

\* the local rule on the right half; the parent is replaced by its two
\* children, the sums are recomputed, the extrapolation table is updated
DQAGPE_Bisect2 ==
  /\ pc = "bisect2"
  /\ nrule' = nrule + 1
  /\ LET left == alist(maxerr)
         right == blist(maxerr)
         mid == (left + right) \div 2
     IN \E o \in RuleOutcomes(mid, right) :
          IF o.fails
          THEN /\ Abort
               /\ integrand' = [integrand EXCEPT
                                  !.rule = Seen(@, <<mid, right>>, o)]
               /\ UNCHANGED <<NEVAL, LAST, IWORK, WORK, area, errsum, segid,
                              reseps>>
          ELSE LET w1 == PutRecord(WORK, maxerr, left, mid,
                                   half1.approx, half1.err)
                   w2 == PutRecord(w1, LAST + 1, mid, right, o.approx, o.err)
               IN /\ WORK' = w2
                  /\ segid' = Append(segid, segid[maxerr])
                  /\ IWORK' = Pointers(
                                 [IWORK EXCEPT
                                    ![L1 + maxerr - 1] = level(maxerr) + 1,
                                    ![L1 + LAST] = level(maxerr) + 1],
                                 w2, segid', LAST + 1)
                  /\ LAST' = LAST + 1
                  /\ NEVAL' = NEVAL + 2
                  /\ area' = SumApprox(w2, LAST + 1)
                  /\ errsum' = SumError(w2, LAST + 1)
                  /\ \E e \in Extrapolated(LAST + 1) :
                       /\ reseps' = e
                       /\ integrand' =
                            [integrand EXCEPT
                               !.rule = Seen(@, <<mid, right>>, o),
                               !.extrap = Seen(@, LAST + 1, e)]
                  /\ pc' = "test"
                  /\ UNCHANGED <<IER, failedAt>>
  /\ UNCHANGED <<inputs, RESULT, ABSERR, LIMIT, LVL, dqagpe, xerror, k,
                 maxerr, half1, caller, elsewhere>>

\* the error handler without LVL = 0 after the driver
DQAGP_ErrorHandler_NoLvl0 ==
  /\ pc \in {"L220", "L10"}
  /\ LET lvl0 == LVL
         lvl1 == IF IER = 6 THEN 1 ELSE lvl0
     IN /\ LVL' = lvl1
        /\ xerror' = IF IER > 0 THEN Append(xerror, <<IER, lvl1>>) ELSE xerror
  /\ pc' = "returned"
  /\ UNCHANGED <<inputs, outputs, IWORK, WORK, LIMIT, dqagpe, driver,
                 nrule, failedAt, caller, integrand, elsewhere>>

\* the error handler with the fatal level 2 for invalid input
DQAGP_ErrorHandler_Fatal ==
  /\ pc \in {"L220", "L10"}
  /\ LET lvl0 == IF pc = "L220" THEN 0 ELSE LVL
         lvl1 == IF IER = 6 THEN 2 ELSE lvl0
     IN /\ LVL' = lvl1
        /\ xerror' = IF IER > 0 THEN Append(xerror, <<IER, lvl1>>) ELSE xerror
  /\ pc' = "returned"
  /\ UNCHANGED <<inputs, outputs, IWORK, WORK, LIMIT, dqagpe, driver,
                 nrule, failedAt, caller, integrand, elsewhere>>

\* lines 220-223: LVL = 0 after the driver; label 10; XERROR; RETURN
DQAGP_ErrorHandler ==
  /\ pc \in {"L220", "L10"}
  /\ LET lvl0 == IF pc = "L220" THEN 0 ELSE LVL
         lvl1 == IF IER = 6 THEN 1 ELSE lvl0
     IN /\ LVL' = lvl1
        /\ xerror' = IF IER > 0 THEN Append(xerror, <<IER, lvl1>>) ELSE xerror
  /\ pc' = "returned"
  /\ UNCHANGED <<inputs, outputs, IWORK, WORK, LIMIT, dqagpe, driver,
                 nrule, failedAt, caller, integrand, elsewhere>>

----------------------------------------------------------------------------
Next ==
  \/ DQAGP_Entry
  \/ DQAGP_Prepare
  \/ DQAGPE_Validate
  \/ DQAGPE_Sort
  \/ DQAGPE_Initial
  \/ DQAGPE_Test
  \/ DQAGPE_Bisect
  \/ DQAGPE_Bisect2
  \/ DQAGP_ErrorHandler

Spec == Init /\ [][Next]_vars

\* DQAGP is one synchronous call: the processor executes the next statement
\* as long as there is one, so no step is postponed for ever
FairSpec == Spec /\ WF_vars(Next)

\* the deepest store of the calls that fill more than half of it
DeepLIMIT == MaxLIMIT + 2

\* one call on the whole interval with room for DeepLIMIT records
DeepInit ==
  /\ pc = "entry"
  /\ A = 0
  /\ B = 2 * Grid
  /\ NPTS2 = 2
  /\ POINTS = << >>
  /\ LENIW = 2 * DeepLIMIT + NPTS2
  /\ LENW = 2 * LENIW - NPTS2
  /\ EPSABS = 1
  /\ EPSREL = 0
  /\ RESULT \in CallerVals /\ ABSERR \in CallerVals /\ NEVAL \in CallerVals
  /\ IER \in CallerVals /\ LAST \in CallerVals
  /\ IWORK = [i \in 1..LENIW |-> Undef]
  /\ WORK = [i \in 1..LENW |-> Undef]
  /\ LIMIT = Undef /\ LVL = Undef
  /\ dqagpe = 0
  /\ xerror = << >>
  /\ area = 0 /\ errsum = 0
  /\ segid = << >>
  /\ k = 0 /\ maxerr = 0
  /\ half1 = NoOutcome
  /\ reseps = NoExtrap
  /\ nrule = 0 /\ failedAt = 0
  /\ call = 1 /\ ncalls = 1
  /\ integrand = NothingSeen
  /\ first = NoAnswer
  /\ NonnegIdle
  /\ QAppIdle
  /\ QObjectIdle

DeepSpec == DeepInit /\ [][Next]_vars

\* a call with any dimensioning parameters, up to the call of the driver
WrapperInit ==
  /\ pc = "entry"
  /\ A = 0
  /\ B = 2 * Grid
  /\ NPTS2 \in 0..MaxNPTS2
  /\ POINTS = [i \in 1..Max(NPTS2 - 2, 0) |-> Grid]
  /\ LENIW \in 0..(2 * MaxLIMIT + MaxNPTS2 + 1)
  /\ LENW \in 0..(4 * MaxLIMIT + MaxNPTS2 + 2)
  /\ EPSABS = 1
  /\ EPSREL = 0
  /\ RESULT \in CallerVals /\ ABSERR \in CallerVals /\ NEVAL \in CallerVals
  /\ IER \in CallerVals /\ LAST \in CallerVals
  /\ IWORK = [i \in 1..LENIW |-> Undef]
  /\ WORK = [i \in 1..LENW |-> Undef]
  /\ LIMIT = Undef /\ LVL = Undef
  /\ dqagpe = 0
  /\ xerror = << >>
  /\ area = 0 /\ errsum = 0
  /\ segid = << >>
  /\ k = 0 /\ maxerr = 0
  /\ half1 = NoOutcome
  /\ reseps = NoExtrap
  /\ nrule = 0 /\ failedAt = 0
  /\ call = 1 /\ ncalls = 1
  /\ integrand = NothingSeen
  /\ first = NoAnswer
  /\ NonnegIdle
  /\ QAppIdle
  /\ QObjectIdle

\* the statements of DQAGP before and around the call of the driver
WrapperNext ==
  \/ DQAGP_Entry
  \/ DQAGP_Prepare
  \/ pc = "L10" /\ DQAGP_ErrorHandler

WrapperSpec == WrapperInit /\ [][WrapperNext]_vars

\* the sequences whose elements are those of s in another order
PermutationsOf(s) ==
  {[i \in DOMAIN s |-> s[p[i]]] :
     p \in {q \in [DOMAIN s -> DOMAIN s] :
              \A i, j \in DOMAIN s : i # j => q[i] # q[j]}}

\* the caller calls DQAGP again: same integrand, limits, tolerances and
\* work array dimensions, the break points in any order, fresh work arrays
DQAGP_CallAgain ==
  /\ pc = "returned"
  /\ call < ncalls
  /\ call' = call + 1
  /\ first' = [POINTS |-> POINTS, RESULT |-> RESULT, ABSERR |-> ABSERR,
               NEVAL |-> NEVAL, LAST |-> LAST, IER |-> IER]
  /\ POINTS' \in PermutationsOf(POINTS)
  /\ pc' = "entry"
  /\ RESULT' \in CallerVals /\ ABSERR' \in CallerVals /\ NEVAL' \in CallerVals
  /\ IER' \in CallerVals /\ LAST' \in CallerVals
  /\ IWORK' = [i \in 1..LENIW |-> Undef]
  /\ WORK' = [i \in 1..LENW |-> Undef]
  /\ LIMIT' = Undef /\ LVL' = Undef
  /\ dqagpe' = 0
  /\ xerror' = << >>
  /\ area' = 0 /\ errsum' = 0
  /\ segid' = << >>
  /\ k' = 0 /\ maxerr' = 0
  /\ half1' = NoOutcome
  /\ reseps' = NoExtrap
  /\ nrule' = 0 /\ failedAt' = 0
  /\ UNCHANGED <<A, B, NPTS2, EPSABS, EPSREL, LENIW, LENW, ncalls, integrand, elsewhere>>

\* two calls of DQAGP on the same integrand
TwoCalls == Start(2) /\ NPTS2 >= MaxNPTS2 - 1
NextTwoCalls == Next \/ DQAGP_CallAgain
PermSpec == TwoCalls /\ [][NextTwoCalls]_vars

----------------------------------------------------------------------------
(* mustBeNonnegative (the Octave function in libgui/src/octave-qobject.cc) *)

\* DQAGP is not being called
QuadIdle ==
  /\ pc = "idle"
  /\ A = 0 /\ B = 0 /\ NPTS2 = 0 /\ POINTS = << >>
  /\ EPSABS = 0 /\ EPSREL = 0 /\ LENIW = 0 /\ LENW = 0
  /\ RESULT = Undef /\ ABSERR = Undef /\ NEVAL = Undef
  /\ IER = Undef /\ LAST = Undef
  /\ IWORK = << >> /\ WORK = << >>
  /\ LIMIT = Undef /\ LVL = Undef
  /\ dqagpe = 0 /\ xerror = << >>
  /\ area = 0 /\ errsum = 0 /\ segid = << >>
  /\ k = 0 /\ maxerr = 0 /\ half1 = NoOutcome /\ reseps = NoExtrap
  /\ nrule = 0 /\ failedAt = 0
  /\ call = 0 /\ ncalls = 0 /\ integrand = NothingSeen /\ first = NoAnswer

\* doubles: the finite values are integers, the three others are codes
NegInf == -9
PosInf == 9
NaN == 8
Doubles == {NegInf, -1, 0, 1, PosInf, NaN}

\* a >= b on the codes as on integers: NaN compares as a number
GE_Ordered(a, b) == a >= b

\* a >= b on doubles: false when an operand is NaN
GE(a, b) == a # NaN /\ b # NaN /\ a >= b

\* all (t)
All(t) == \A i \in DOMAIN t : t[i]
\* find (t): the indexes of the true elements, ascending
Find(t) == SelectSeq([i \in 1..Len(t) |-> i], LAMBDA i : t[i])
\* x (ix): the elements of x at the indexes ix
Indexed(xs, ix) == [j \in 1..Len(ix) |-> xs[ix[j]]]

NonnegInit ==
  /\ QuadIdle
  /\ QAppIdle
  /\ QObjectIdle
  /\ mbn = "call"
  /\ x \in UNION {[1..n -> Doubles] : n \in 0..MaxNumel}
  /\ tf = << >>
  /\ errmsg = NoError

\* lines 396-398: tf = x >= 0; tf = tf(:); if ! all (tf)
MBN_Test ==
  /\ mbn = "call"
  /\ LET t == [i \in 1..Len(x) |-> GE(x[i], 0)]
     IN /\ tf' = t
        /\ mbn' = IF ~All(t) THEN "report" ELSE "returned"
  /\ UNCHANGED <<x, errmsg, quad, qapp, qobj>>

\* lines 399-413: label, ix_bad, the message with the bad values, or with
\* their indexes when the values cannot be printed; error (errmsg)
MBN_Report ==
  /\ mbn = "report"
  /\ \E name \in {"", "x"}, thrown \in BOOLEAN :
       LET label == IF name = "" THEN "input" ELSE name
           ix_bad == Find([i \in 1..Len(tf) |-> ~tf[i]])
           bad == Indexed(x, ix_bad)
       IN errmsg' = [label |-> label, count |-> Len(ix_bad),
                     listed |-> IF thrown THEN ix_bad ELSE bad]
  /\ mbn' = "error"
  /\ UNCHANGED <<x, tf, quad, qapp, qobj>>

NonnegNext == MBN_Test \/ MBN_Report
NonnegSpec == NonnegInit /\ [][NonnegNext]_vars

----------------------------------------------------------------------------
(* octave_qapplication::notify and the forwarding of interpreter events   *)
(* (libgui/src/octave-qobject.cc)                                          *)

\* the execution_exception objects an event handler may throw
ExceptionIds == {1, 2}

\* what QApplication::notify (receiver, ev) does: it returns a value, or an
\* execution_exception leaves it, or an exception of another type does
Deliveries ==
  [kind : {"returns"}, val : BOOLEAN, id : {0}]
  \cup [kind : {"execution_exception"}, val : {FALSE}, id : ExceptionIds]
  \cup [kind : {"other_exception"}, val : {FALSE}, id : {0}]

\* the lambda [ee] (void) { throw ee; }: it holds a copy of ee
Callback(ee) == [throws |-> ee]

\* how a call of notify ended
Ended(delivery, returned, value) ==
  [ev |-> delivery, returned |-> returned, value |-> value]

QAppInit == QuadIdle /\ NonnegIdle /\ QAppIdle /\ QObjectIdle

\* line 71: the event is handed to QApplication::notify inside the try
QApp_Deliver ==
  /\ gui = "idle"
  /\ Len(notified) < MaxEvents
  /\ ev' \in Deliveries
  /\ gui' = "try"
  /\ UNCHANGED <<notified, signals, queue, interp, quad, nonneg, qobj>>

\* line 71: return QApplication::notify (receiver, ev)
QApp_Return ==
  /\ gui = "try" /\ ev.kind = "returns"
  /\ notified' = Append(notified, Ended(ev, TRUE, ev.val))
  /\ gui' = "idle" /\ ev' = NoEvent
  /\ UNCHANGED <<signals, queue, interp, quad, nonneg, qobj>>

\* the handler that drops the exception without emitting the signal
QApp_Catch_Dropped ==
  /\ gui = "try" /\ ev.kind = "execution_exception"
  /\ gui' = "caught"
  /\ UNCHANGED <<ev, notified, signals, queue, interp, quad, nonneg, qobj>>

\* lines 73-82: catch (execution_exception& ee), emit interpreter_event;
\* the signal is connected (lines 156-157) to base_qobject::interpreter_event
\* (lines 271-281), called directly, which puts the callback in the queue
QApp_Catch ==
  /\ gui = "try" /\ ev.kind = "execution_exception"
  /\ signals' = Append(signals, Callback(ev.id))
  /\ queue' = Append(queue, Callback(ev.id))
  /\ gui' = "caught"
  /\ UNCHANGED <<ev, notified, interp, quad, nonneg, qobj>>

\* line 84: return false
QApp_ReturnFalse ==
  /\ gui = "caught"
  /\ notified' = Append(notified, Ended(ev, TRUE, FALSE))
  /\ gui' = "idle" /\ ev' = NoEvent
  /\ UNCHANGED <<signals, queue, interp, quad, nonneg, qobj>>

\* an exception that is not an execution_exception matches no handler and
\* leaves notify
QApp_Propagate ==
  /\ gui = "try" /\ ev.kind = "other_exception"
  /\ notified' = Append(notified, Ended(ev, FALSE, FALSE))
  /\ gui' = "idle" /\ ev' = NoEvent
  /\ UNCHANGED <<signals, queue, interp, quad, nonneg, qobj>>

\* INTERPRETER THREAD: the oldest queued callback is executed: throw ee
Interpreter_Execute ==
  /\ queue # << >>
  /\ interp' = Append(interp, Head(queue).throws)
  /\ queue' = Tail(queue)
  /\ UNCHANGED <<gui, ev, notified, signals, quad, nonneg, qobj>>

QAppNext ==
  \/ QApp_Deliver
  \/ QApp_Return
  \/ QApp_Catch
  \/ QApp_ReturnFalse
  \/ QApp_Propagate
  \/ Interpreter_Execute
QAppSpec == QAppInit /\ [][QAppNext]_vars

----------------------------------------------------------------------------
(* cli_qobject, gui_qobject: construction, interpreter thread, event loop *)

\* the exit statuses the interpreter finishes with
ExitStatuses == {0, 1}

\* lines 150-163: the connections made in the body of base_qobject's
\* constructor
BaseCtor ==
  <<"connect octave_finished_signal", "connect finished",
    "connect interpreter_event fcn", "connect interpreter_event meth">>

\* the statements that connect a signal to a slot (lines 150-163, 336-337)
Connections ==
  {BaseCtor[i] : i \in DOMAIN BaseCtor} \cup {"connect octave_ready_signal"}

\* lines 247-251: the statements of start_main_thread
StartMainThread ==
  <<"singleShot execute", "moveToThread", "start">>

\* lines 319-331: cli_qobject's constructor, base class first
CliCtor ==
  BaseCtor
  \o <<"reload_settings", "config_translators", "setQuitOnLastWindowClosed">>
  \o StartMainThread

\* the constructor that starts the interpreter thread before it connects
\* octave_ready_signal
GuiCtor_StartFirst ==
  BaseCtor \o <<"new main_window", "gui_running">> \o StartMainThread
  \o <<"connect octave_ready_signal">>

\* lines 333-342: gui_qobject's constructor, base class first, then the
\* member m_main_window, then the body
GuiCtor ==
  BaseCtor
  \o <<"new main_window", "connect octave_ready_signal", "gui_running">>
  \o StartMainThread

\* the statements of the constructor of the object under construction
Body == IF kind = "cli" THEN CliCtor ELSE GuiCtor

\* the constructor has executed the statement
Done(stmt) == \E i \in 1..ctor : Body[i] = stmt

\* the constructor has returned
Constructed == kind # "none" /\ ctor = Len(Body)

\* signals of the interpreter object, and what the slots do
Ready == [signal |-> "octave_ready_signal", status |-> 0]
Finished(status) == [signal |-> "octave_finished_signal", status |-> status]
Quit == [signal |-> "m_main_thread->quit", status |-> 0]
Exit(status) == [signal |-> "qApp->exit", status |-> status]

\* config_translators that does not remember that it installed them
ConfigTranslators_Forgetful ==
  /\ trcalls' = trcalls + 1
  /\ IF m_translators_installed
     THEN UNCHANGED <<m_translators_installed, installed, configured>>
     ELSE /\ configured' = configured + 1
          /\ installed' = installed \o <<"m_qt_tr", "m_gui_tr", "m_qsci_tr">>
          /\ m_translators_installed' = m_translators_installed

\* lines 229-241: base_qobject::config_translators
ConfigTranslators ==
  /\ trcalls' = trcalls + 1
  /\ IF m_translators_installed
     THEN UNCHANGED <<m_translators_installed, installed, configured>>
     ELSE /\ configured' = configured + 1
          /\ installed' = installed \o <<"m_qt_tr", "m_gui_tr", "m_qsci_tr">>
          /\ m_translators_installed' = TRUE

\* the application creates a cli_qobject or a gui_qobject
QObjectInit ==
  /\ QuadIdle /\ NonnegIdle /\ QAppIdle
  /\ kind \in {"cli", "gui"} /\ ctor = 0 /\ connected = {}
  /\ m_translators_installed = FALSE /\ installed = << >>
  /\ configured = 0 /\ trcalls = 0
  /\ m_main_thread = "new" /\ execute = "none"
  /\ emitted = << >> /\ posted = << >> /\ lost = << >>
  /\ loop = "none" /\ exit_status = Undef /\ handled = << >>

\* GUI thread: the next statement of the constructor
Construct ==
  /\ kind # "none" /\ ctor < Len(Body)
  /\ ctor' = ctor + 1
  /\ LET stmt == Body[ctor + 1]
     IN /\ connected' = IF stmt \in Connections
                        THEN connected \cup {stmt} ELSE connected
        /\ IF stmt = "config_translators"
           THEN ConfigTranslators ELSE UNCHANGED translators
        /\ execute' = IF stmt = "singleShot execute"
                      THEN "scheduled" ELSE execute
        /\ m_main_thread' = IF stmt = "start" THEN "started" ELSE m_main_thread
  /\ UNCHANGED <<kind, emitted, posted, lost, loop, exit_status, handled,
                 quad, nonneg, qapp>>

\* GUI thread: a call of config_translators on the constructed object
Call_ConfigTranslators ==
  /\ Constructed
  /\ trcalls < MaxCalls
  /\ ConfigTranslators
  /\ UNCHANGED <<kind, ctor, connected, m_main_thread, execute, emitted,
                 posted, lost, loop, exit_status, handled, quad, nonneg, qapp>>

\* line 256: base_qobject::exec, the application's event loop starts
Gui_Exec ==
  /\ Constructed /\ loop = "none"
  /\ loop' = "running"
  /\ UNCHANGED <<kind, ctor, connected, translators, m_main_thread, execute,
                 emitted, posted, lost, exit_status, handled, quad, nonneg,
                 qapp>>

\* a signal of the interpreter object, emitted in the interpreter thread:
\* every slot connected to it is queued for the GUI thread
Emit(sig) ==
  /\ emitted' = Append(emitted, sig)
  /\ IF ("connect " \o sig.signal) \in connected
     THEN posted' = Append(posted, sig) /\ lost' = lost
     ELSE lost' = Append(lost, sig) /\ posted' = posted

\* interpreter thread: the deferred call of execute, once the thread runs
\* and the object has been moved to it
Interp_Execute ==
  /\ execute = "scheduled" /\ m_main_thread = "started"
  /\ Done("moveToThread")
  /\ execute' = "running"
  /\ UNCHANGED <<kind, ctor, connected, translators, m_main_thread, emitted,
                 posted, lost, loop, exit_status, handled, quad, nonneg, qapp>>

\* interpreter thread: the interpreter is ready
Interp_Ready ==
  /\ execute = "running"
  /\ Len(emitted) < MaxEvents
  /\ Emit(Ready)
  /\ UNCHANGED <<kind, ctor, connected, translators, m_main_thread, execute,
                 loop, exit_status, handled, quad, nonneg, qapp>>

\* interpreter thread: execute ends with the interpreter's exit status
Interp_Finished ==
  /\ execute = "running"
  /\ \E status \in ExitStatuses : Emit(Finished(status))
  /\ execute' = "done"
  /\ UNCHANGED <<kind, ctor, connected, translators, m_main_thread, loop,
                 exit_status, handled, quad, nonneg, qapp>>

\* handle_octave_finished that exits the application with status 0
HandleOctaveFinished_Zero(exit_status_arg) ==
  /\ m_main_thread' = "quit"
  /\ loop' = "exited"
  /\ exit_status' = 0
  /\ handled' = handled \o <<Quit, Exit(0)>>

\* lines 259-269: base_qobject::handle_octave_finished
HandleOctaveFinished(exit_status_arg) ==
  /\ m_main_thread' = "quit"
  /\ loop' = "exited"
  /\ exit_status' = exit_status_arg
  /\ handled' = handled \o <<Quit, Exit(exit_status_arg)>>

\* GUI thread: the event loop runs the next queued slot
Gui_Dispatch ==
  /\ loop = "running" /\ posted # << >>
  /\ posted' = Tail(posted)
  /\ IF Head(posted).signal = "octave_finished_signal"
     THEN HandleOctaveFinished(Head(posted).status)
     ELSE /\ handled' = Append(handled, Head(posted))
          /\ UNCHANGED <<m_main_thread, loop, exit_status>>
  /\ UNCHANGED <<kind, ctor, connected, translators, execute, emitted, lost,
                 quad, nonneg, qapp>>

QObjectNext ==
  \/ Construct
  \/ Call_ConfigTranslators
  \/ Gui_Exec
  \/ Interp_Execute
  \/ Interp_Ready
  \/ Interp_Finished
  \/ Gui_Dispatch

QObjectSpec == QObjectInit /\ [][QObjectNext]_vars

\* the GUI thread runs the constructor to its end, the application then
\* enters its event loop, and a running event loop runs the queued slots
QObjectFairSpec ==
  QObjectSpec /\ WF_vars(Construct) /\ WF_vars(Gui_Exec)
              /\ WF_vars(Gui_Dispatch)

----------------------------------------------------------------------------
(* The contract of a call, as its documentation states it *)

\* the call has returned to its caller
Returned == pc = "returned"
\* the driver has been entered and LIMIT is set
InDriver == pc \in {"dqagpe", "sort", "initial", "test", "bisect", "bisect2"}
\* LENIW, LENW or NPTS2 is invalid
BadDimensions ==
  NPTS2 < 2 \/ LENIW < 3 * NPTS2 - 2 \/ LENW < 2 * LENIW - NPTS2
\* a user-supplied break point lies outside [A, B]
BadPoints == \E i \in 1..(NPTS2 - 2) : POINTS[i] < A \/ POINTS[i] > B
\* the accuracy request is below the roundoff floor
BadAccuracy == EPSABS <= 0 /\ EPSREL < EpsrelFloor
\* RESULT, ABSERR, NEVAL and LAST are zero
ZeroAnswer == RESULT = 0 /\ ABSERR = 0 /\ NEVAL = 0 /\ LAST = 0
\* the capacity of the record store the documentation promises
Capacity == (LENIW - NPTS2) \div 2

\* C1: a call with NPTS2 < 2, LENIW < 3*NPTS2-2 or LENW < 2*LENIW-NPTS2
\* returns IER = 6 with a zero answer and never invokes DQAGPE; any other
\* call invokes DQAGPE exactly once.
C1_DimensionCheck ==
  /\ BadDimensions => dqagpe = 0
  /\ dqagpe <= 1
  /\ Returned =>
       IF BadDimensions
       THEN IER = 6 /\ ZeroAnswer /\ dqagpe = 0
       ELSE dqagpe = 1

C1_Witness ==
  Returned /\ NPTS2 >= 2 /\ LENIW = 3 * NPTS2 - 3 /\ IER = 6 /\ dqagpe = 0

\* C2, as claimed: a break point outside [A, B] ends the call with IER = 6
\* and a zero answer without the driver being invoked and before anything
\* is written to the record store.
C2_RejectedByWrapper ==
  (Returned /\ BadPoints) =>
    /\ IER = 6 /\ ZeroAnswer
    /\ dqagpe = 0
    /\ \A i \in DOMAIN WORK : WORK[i] = Undef

\* C2, amended: a break point outside [A, B] ends the call with IER = 6 and
\* a zero answer, before any integrand evaluation and with no live record;
\* when LENIW, LENW and NPTS2 are valid it is the driver, invoked once by
\* DQAGP, that rejects the call, after presetting the first record.
C2_RejectedByDriver ==
  (Returned /\ BadPoints) =>
    /\ IER = 6 /\ ZeroAnswer
    /\ nrule = 0
    /\ ~BadDimensions =>
         /\ dqagpe = 1
         /\ WORK[1] = A /\ WORK[Capacity + 1] = B
         /\ WORK[2 * Capacity + 1] = 0 /\ WORK[3 * Capacity + 1] = 0

C2_Witness ==
  Returned /\ BadPoints /\ ~BadDimensions /\ ~BadAccuracy
  /\ IER = 6 /\ dqagpe = 1

\* C3: with EPSABS <= 0 and EPSREL below the floor the call ends with
\* IER = 6, a zero answer and no integrand evaluation; with EPSABS > 0 or
\* EPSREL at or above the floor, and nothing else invalid, IER is not 6.
C3_AccuracyRequest ==
  Returned =>
    /\ BadAccuracy => (IER = 6 /\ ZeroAnswer /\ nrule = 0)
    /\ (~BadAccuracy /\ ~BadDimensions /\ ~BadPoints) => IER # 6

C3_Witness ==
  Returned /\ BadAccuracy /\ ~BadDimensions /\ ~BadPoints
  /\ EPSABS = 0 /\ IER = 6 /\ dqagpe = 1

\* C4: the number of live records never exceeds LIMIT = (LENIW-NPTS2)/2,
\* and when the tolerance is not met and the store is full the driver
\* bisects no further: it writes nothing and returns IER = 1.
C4_StoreBounded ==
  /\ [](InDriver => (LIMIT = Capacity /\ LAST <= Capacity))
  /\ [](Returned => (BadDimensions \/ LAST <= Capacity))
  /\ [][(pc = "bisect" /\ LAST = Capacity) =>
          (IER' = 1 /\ LAST' = LAST /\ WORK' = WORK /\ IWORK' = IWORK
           /\ nrule' = nrule /\ pc' = "L220")]_vars

C4_Witness ==
  Returned /\ IER = 1 /\ LAST = Capacity /\ LAST > NPTS2 - 1 /\ ABSERR > 0

RuleBudget ==
  IF BadDimensions THEN 0 ELSE (NPTS2 - 1) + 2 * (Capacity - (NPTS2 - 1))

\* C6: every call returns, whatever the integrand's values and error
\* estimates are, after at most LIMIT-(NPTS2-1) bisections, so that the
\* number of evaluations is bounded by the capacity the caller chose.
C6_Terminates ==
  /\ <>Returned
  /\ [](nrule <= RuleBudget)
  /\ [](InDriver => LAST - (NPTS2 - 1) <= Capacity - (NPTS2 - 1))

C6_Witness ==
  Returned /\ IER = 1 /\ nrule = RuleBudget /\ Capacity - (NPTS2 - 1) >= 2

C8_StatusInZeroToSix ==
  Returned =>
    /\ IER \in 0..6
    /\ IER \in 1..5 => (RESULT = BestEstimate /\ ABSERR = errsum /\ ABSERR > 0)
    /\ ZeroAnswer => IER = 6

\* C8, amended: the call returns (XERROR is called at most once and never
\* with the fatal level) with one status in 0..6 or the integrand
\* evaluation failure; statuses 1 to 5 carry the best estimate computed so
\* far; only status 6 and the evaluation failure return the zero answer.
C8_StatusOrFailure ==
  /\ Len(xerror) <= 1
  /\ \A i \in DOMAIN xerror : xerror[i][2] \in {0, 1}
  /\ Returned =>
       /\ IER \in (0..6) \cup {IerEvalFailure}
       /\ IER \in 1..5 =>
            /\ RESULT = BestEstimate
            /\ ABSERR = SumError(WORK, LAST)
            /\ ABSERR > 0 /\ NEVAL > 0 /\ LAST > 0
       /\ ZeroAnswer => IER \in {6, IerEvalFailure}

C8_Witness ==
  Returned /\ IER = 5 /\ RESULT = 0 /\ area # 0 /\ ABSERR > 0
  /\ xerror = <<<<5, 0>>>>

\* the break-point/limit sequence is stored: the driver went past its sort
PointsStored ==
  \/ pc \in {"initial", "test", "bisect", "bisect2"}
  \/ pc \in {"L220", "returned"} /\ ~BadDimensions /\ IER # 6

C10_AbortOnFailure ==
  /\ [][failedAt # 0 =>
          (nrule' = nrule /\ NEVAL' = NEVAL /\ LAST' = LAST
           /\ WORK' = WORK /\ IWORK' = IWORK /\ IER' = IER)]_vars
  /\ [](failedAt # 0 =>
          (failedAt = nrule /\ IER = IerEvalFailure /\ IER # 0
           /\ pc \in {"L220", "returned"}))

C10_Witness ==
  Returned /\ failedAt > NPTS2 - 1 /\ failedAt = nrule
  /\ IER = IerEvalFailure /\ xerror = << >>

\* the first record of the work arrays is preset by the driver
FirstRecordPreset ==
  /\ WORK[1] = A /\ WORK[Capacity + 1] = B
  /\ WORK[2 * Capacity + 1] = 0 /\ WORK[3 * Capacity + 1] = 0
  /\ IWORK[1] = 0 /\ IWORK[Capacity + 1] = 0

\* C11: when LENIW, LENW or NPTS2 is invalid no element of WORK or IWORK is
\* ever written; a call that returns IER = 6 for another cause has
\* IWORK(1), IWORK(LIMIT+1), WORK(LIMIT*2+1), WORK(LIMIT*3+1) zeroed and
\* WORK(1) = A, WORK(LIMIT+1) = B.
C11_ArraysUntouched ==
  /\ [][BadDimensions => (WORK' = WORK /\ IWORK' = IWORK)]_vars
  /\ [](BadDimensions =>
          /\ \A i \in DOMAIN WORK : WORK[i] = Undef
          /\ \A i \in DOMAIN IWORK : IWORK[i] = Undef)
  /\ []((Returned /\ IER = 6 /\ ~BadDimensions) => FirstRecordPreset)

C11_Witness ==
  /\ Returned /\ IER = 6
  /\ NPTS2 >= 2 /\ LENIW >= 3 * NPTS2 - 2 /\ LENW < 2 * LENIW - NPTS2
  /\ \A i \in DOMAIN WORK : WORK[i] = Undef
  /\ \A i \in DOMAIN IWORK : IWORK[i] = Undef

\* the element v is negative, -Inf or NaN
Fails(v) == v = NaN \/ v = NegInf \/ (v # PosInf /\ v < 0)

\* C12: mustBeNonnegative (x) raises an error exactly when an element of x
\* is negative, -Inf or NaN, and the message counts those elements; when
\* every element is 0, positive or +Inf it returns with no error, and x is
\* never changed.
C12_ErrorIffSomeElementFails ==
  /\ [][x' = x]_vars
  /\ [](mbn \in {"report", "error"} => \E i \in DOMAIN x : Fails(x[i]))
  /\ [](mbn = "error" =>
          /\ errmsg # NoError
          /\ errmsg.count = Cardinality({i \in DOMAIN x : Fails(x[i])}))
  /\ [](mbn = "returned" =>
          /\ \A i \in DOMAIN x : ~Fails(x[i])
          /\ errmsg = NoError)

C12_Witness ==
  /\ mbn = "error"
  /\ \E i, j, l \in DOMAIN x : x[i] = NaN /\ x[j] = PosInf /\ x[l] = NegInf
  /\ errmsg.count = 2 /\ errmsg.label = "input"

\* the ids of the execution_exceptions of the calls of notify in log, in order
RECURSIVE Caught(_)
Caught(log) ==
  IF log = << >> THEN << >>
  ELSE (IF Head(log).ev.kind = "execution_exception"
        THEN <<Head(log).ev.id>> ELSE << >>) \o Caught(Tail(log))

\* the exceptions the callbacks in q throw when executed
Thrown(q) == [i \in 1..Len(q) |-> q[i].throws]

\* C13: a call of notify in which an execution_exception was thrown returns
\* false, and exactly one interpreter_event was emitted for it, whose
\* callback throws a copy of that exception when the interpreter thread
\* executes it; a call in which the event handler returned returns that
\* value and emits nothing.
C13_ExceptionForwarded ==
  /\ \A i \in DOMAIN notified :
       /\ notified[i].ev.kind = "execution_exception" =>
            (notified[i].returned /\ notified[i].value = FALSE)
       /\ notified[i].ev.kind = "returns" =>
            (notified[i].returned /\ notified[i].value = notified[i].ev.val)
  /\ Thrown(signals) =
       Caught(notified) \o (IF gui = "caught" THEN <<ev.id>> ELSE << >>)
  /\ interp \o Thrown(queue) = Thrown(signals)

C13_Witness ==
  /\ Len(notified) = 3 /\ gui = "idle"
  /\ notified[1].ev.kind = "execution_exception" /\ notified[1].ev.id = 2
  /\ notified[2].ev.kind = "returns" /\ notified[2].value = TRUE
  /\ notified[3].ev.kind = "execution_exception" /\ notified[3].ev.id = 1
  /\ interp = <<2, 1>> /\ queue = << >>

\* the initial evaluation is complete and no evaluation has failed: the
\* driver is in its main loop or has left it
InMainLoop ==
  \/ pc \in {"test", "bisect", "bisect2"}
  \/ /\ pc \in {"L220", "returned"}
     /\ ~BadDimensions /\ IER \notin {6, IerEvalFailure}

\* the sum of the n elements of WORK that follow offset base
RECURSIVE LiveSum(_, _)
LiveSum(base, n) ==
  IF n = 0 THEN 0 ELSE LiveSum(base, n - 1) + WORK[base + n]

\* C14: after the initial evaluation and after every completed bisection
\* the running global approximation is the sum of the approximations of
\* the LAST live records, and the running global error bound the sum of
\* their error estimates.
C14_GlobalSums ==
  InMainLoop =>
    /\ area = LiveSum(2 * Capacity, LAST)
    /\ errsum = LiveSum(3 * Capacity, LAST)

C14_Witness ==
  /\ pc = "test" /\ NPTS2 = 3 /\ LAST = NPTS2
  /\ area = 3 /\ errsum = 4

\* the original segment record i descends from, and its length
SegmentOf(i) == segid[i]
SegmentLength(i) ==
  WORK[4 * Capacity + SegmentOf(i) + 1] - WORK[4 * Capacity + SegmentOf(i)]

\* C15: every live record has left < right, and its length is the length of
\* the original segment it descends from times 2^(-level), level being the
\* number of bisections since that segment.
C15_RecordShape ==
  pc # "entry" =>
    \A i \in 1..LAST :
      /\ WORK[i] < WORK[Capacity + i]
      /\ IWORK[Capacity + i] >= 0
      /\ (WORK[Capacity + i] - WORK[i]) * 2 ^ IWORK[Capacity + i]
           = SegmentLength(i)

\* the end points of live record i, and the j-th sorted point
LeftEnd(i) == WORK[i]
RightEnd(i) == WORK[Capacity + i]
SortedPoint(j) == WORK[4 * Capacity + j]

\* C16: once the initial evaluation is complete the live subintervals form
\* a partition of [A, B]: each lies in [A, B], every unit cell of [A, B] is
\* in exactly one of them, and none has a break point in its interior; a
\* bisection replaces one parent by two children that meet at a common end
\* point and cover exactly the parent, and leaves the other records alone.
C16_Partition ==
  /\ [](InMainLoop =>
          /\ \A i \in 1..LAST :
               /\ A <= LeftEnd(i) /\ LeftEnd(i) <= RightEnd(i)
               /\ RightEnd(i) <= B
               /\ \A j \in 1..NPTS2 :
                    ~(LeftEnd(i) < SortedPoint(j)
                      /\ SortedPoint(j) < RightEnd(i))
          /\ \A u \in A..(B - 1) :
               Cardinality({i \in 1..LAST :
                             LeftEnd(i) <= u /\ u + 1 <= RightEnd(i)}) = 1)
  /\ [][(InMainLoop /\ LAST' # LAST) =>
          /\ LAST' = LAST + 1
          /\ \E p \in 1..LAST :
               /\ WORK'[p] = LeftEnd(p)
               /\ WORK'[Capacity + p] = WORK'[LAST']
               /\ WORK'[Capacity + LAST'] = RightEnd(p)
               /\ \A i \in (1..LAST) \ {p} :
                    WORK'[i] = LeftEnd(i)
                    /\ WORK'[Capacity + i] = RightEnd(i)]_vars

C16_Witness ==
  /\ pc = "test" /\ NPTS2 = 3 /\ POINTS = <<Grid>> /\ LAST = 3
  /\ \E i \in 1..LAST : RightEnd(i) - LeftEnd(i) = Grid \div 2

\* the error estimate of live record i
ErrorEstimate(i) == WORK[3 * Capacity + i]

C18_CountsGrow ==
  /\ []((pc = "test" /\ nrule = NPTS2 - 1) =>
          /\ LAST = NPTS2 - 1 /\ NEVAL = NPTS2 - 1
          /\ \A i \in 1..LAST :
               /\ LeftEnd(i) = SortedPoint(i)
               /\ RightEnd(i) = SortedPoint(i + 1)
               /\ SegmentOf(i) = i /\ IWORK[Capacity + i] = 0)
  /\ [][(pc = "bisect2" /\ pc' = "test") =>
          /\ LAST' = LAST + 1 /\ NEVAL' > NEVAL
          /\ WORK'[maxerr] = LeftEnd(maxerr)
          /\ WORK'[Capacity + maxerr] = WORK'[LAST']
          /\ WORK'[Capacity + LAST'] = RightEnd(maxerr)
          /\ \A i \in 1..LAST : i # maxerr =>
               /\ WORK'[i] = LeftEnd(i)
               /\ WORK'[Capacity + i] = RightEnd(i)
               /\ WORK'[3 * Capacity + i] = ErrorEstimate(i)]_vars
  /\ [][(InMainLoop /\ LAST' # LAST) => (pc = "bisect2" /\ pc' = "test")]_vars
  /\ [][pc # "entry" => (LAST' >= LAST /\ NEVAL' >= NEVAL)]_vars

C18_Witness ==
  /\ pc = "test" /\ NPTS2 = 2
  /\ LAST = NPTS2 + 1 /\ NEVAL = NPTS2 + 3 /\ nrule = NEVAL

\* the error estimate that element p of IWORK points to
Pointed(p) == WORK[3 * Capacity + IWORK[p]]

\* the first n elements of IWORK point to live records whose error
\* estimates form a decreasing sequence
OrderedTo(n) ==
  /\ \A p \in 1..n : IWORK[p] \in 1..LAST
  /\ \A p \in 1..(n - 1) : Pointed(p) >= Pointed(p + 1)

\* a return with a status other than invalid input
ReturnedValid == Returned /\ ~BadDimensions /\ IER # 6

\* C19 as stated: on every return with a status other than invalid input the
\* pointers list all LAST records in order of descending error estimate.
C19_AllOrdered ==
  ReturnedValid =>
    /\ OrderedTo(LAST)
    /\ \A i \in 1..LAST : \E p \in 1..LAST : IWORK[p] = i

\* C19: on every return with a status other than invalid input the first K
\* pointers designate live records in order of descending error estimate,
\* where K = LAST if LAST <= LIMIT/2+2 and K = LIMIT+1-LAST otherwise.
C19_FirstKOrdered ==
  ReturnedValid =>
    OrderedTo(IF LAST <= Capacity \div 2 + 2
              THEN LAST ELSE Capacity + 1 - LAST)

C19_Witness ==
  /\ ReturnedValid
  /\ LAST = Capacity /\ LAST > Capacity \div 2 + 2
  /\ \E i \in 1..LAST : Pointed(1) > ErrorEstimate(i)
  /\ ~OrderedTo(LAST)

\* two user break points, LENIW one short of the minimum 3*4-2
OneShort == NPTS2 = 4 /\ LENIW = 3 * 4 - 3

\* two user break points, LENIW the minimum 3*4-2, LENW sufficient for it
Minimum == NPTS2 = 4 /\ LENIW = 3 * 4 - 2 /\ LENW >= 2 * LENIW - NPTS2

WorkSlices ==
  <<1..LIMIT, L1..(2 * LIMIT), L2..(3 * LIMIT), L3..(4 * LIMIT),
    L4..(L4 + NPTS2 - 1)>>

\* the slices of IWORK handed to DQAGPE: IWORK(1), IWORK(L1) of LIMIT
\* elements each and IWORK(L2) of NPTS2 elements
IworkSlices ==
  <<1..LIMIT, L1..(2 * LIMIT), L2..(L2 + NPTS2 - 1)>>

\* the slices of the sequence are not empty, lie in 1..len and are disjoint
Fit(slices, len) ==
  /\ \A i \in DOMAIN slices : slices[i] # {} /\ slices[i] \subseteq 1..len
  /\ \A i, j \in DOMAIN slices : i # j => slices[i] \cap slices[j] = {}

\* C21: whenever NPTS2, LENIW and LENW pass the dimension test, LIMIT =
\* (LENIW-NPTS2)/2 is at least NPTS2-1, which is at least 1, and the slices of
\* WORK and IWORK handed to DQAGPE lie within 1..LENW and 1..LENIW and are
\* pairwise disjoint.
C21_SlicesFit ==
  pc = "dqagpe" =>
    /\ LIMIT = (LENIW - NPTS2) \div 2
    /\ LIMIT >= NPTS2 - 1 /\ NPTS2 - 1 >= 1
    /\ Fit(WorkSlices, LENW) /\ LENW = Len(WORK)
    /\ Fit(IworkSlices, LENIW) /\ LENIW = Len(IWORK)

C21_Witness ==
  /\ pc = "dqagpe"
  /\ NPTS2 = 3 /\ LENIW = 3 * NPTS2 - 2 /\ LENW = 2 * LENIW - NPTS2
  /\ LIMIT = NPTS2 - 1
  /\ L4 + NPTS2 - 1 = LENW /\ L2 + NPTS2 - 1 = LENIW

\* C22: XERROR is called exactly once when the final IER is positive and not
\* at all otherwise; the level passed is 1 exactly when IER = 6 and 0 for IER
\* in 1..5; LVL is assigned before it is read, also on the path through
\* label 10 that skips LVL = 0.
C22_ErrorHandlerOnce ==
  /\ [](~Returned => xerror = << >>)
  /\ [](Returned =>
          /\ IER > 0 => /\ IER \in 1..6
                        /\ xerror = <<<<IER, IF IER = 6 THEN 1 ELSE 0>>>>
          /\ IER <= 0 => xerror = << >>)
  /\ [][(pc \in {"L220", "L10"}) =>
          (/\ pc = "L10" => (LVL = Undef /\ IER = 6)
           /\ LVL' \in {0, 1}
           /\ pc' = "returned")]_vars

C22_Witness ==
  /\ Returned /\ BadDimensions /\ dqagpe = 0
  /\ IER = 6 /\ LVL = 1
  /\ xerror = <<<<6, 1>>>>

\* the number of elements of the sequence s that are e
Count(s, e) == Cardinality({i \in DOMAIN s : s[i] = e})

\* C23: in gui_qobject's construction the main window exists and
\* octave_ready_signal is connected before the interpreter thread is started;
\* execute is scheduled by the constructor but run by the interpreter thread;
\* so no signal of the interpreter is emitted unconnected and every
\* octave_ready_signal emitted is delivered to the main window; every
\* octave_finished_signal(status) leads to the interpreter thread asked to
\* quit and then the application exiting with that status.
C23_SignalsDelivered ==
  /\ []((kind = "gui" /\ m_main_thread # "new") =>
          /\ Done("new main_window")
          /\ "connect octave_ready_signal" \in connected
          /\ "connect octave_finished_signal" \in connected)
  /\ [](execute \in {"running", "done"} =>
          (m_main_thread # "new" /\ Done("singleShot execute")))
  /\ [][(execute' # execute /\ execute' # "scheduled") => ctor' = ctor]_vars
  /\ [](kind = "gui" => lost = << >>)
  /\ \A n \in 1..MaxEvents :
       (kind = "gui" /\ Count(emitted, Ready) >= n)
         ~> (Count(handled, Ready) >= n)
  /\ \A status \in ExitStatuses :
       (Count(emitted, Finished(status)) > 0)
         ~> (/\ m_main_thread = "quit" /\ loop = "exited"
             /\ exit_status = status)
  /\ [](loop = "exited" =>
          /\ Len(handled) >= 2
          /\ handled[Len(handled) - 1] = Quit
          /\ handled[Len(handled)] = Exit(exit_status)
          /\ Count(emitted, Finished(exit_status)) = 1)

C23_Witness ==
  /\ kind = "gui" /\ loop = "exited" /\ m_main_thread = "quit"
  /\ exit_status = 1
  /\ emitted = <<Ready, Finished(1)>>
  /\ handled = <<Ready, Quit, Exit(1)>>

\* the three translators in the order they are installed (lines 236-238)
Translators == <<"m_qt_tr", "m_gui_tr", "m_qsci_tr">>

\* C24: over any sequence of calls of config_translators on one object the
\* three translators are configured and installed exactly once, by the first
\* call; every later call changes nothing; in cli_qobject's construction the
\* call comes after the settings are reloaded and before the interpreter
\* thread is started.
C24_TranslatorsOnce ==
  /\ [](trcalls = 0 =>
          (installed = << >> /\ configured = 0 /\ ~m_translators_installed))
  /\ [](trcalls >= 1 =>
          (installed = Translators /\ configured = 1
           /\ m_translators_installed))
  /\ [][(trcalls >= 1 /\ trcalls' # trcalls) =>
          (/\ trcalls' = trcalls + 1
           /\ UNCHANGED <<installed, configured, m_translators_installed,
                          kind, ctor, connected, m_main_thread, execute,
                          emitted, posted, lost, loop, exit_status,
                          handled>>)]_vars
  /\ [][(kind = "cli" /\ trcalls = 0 /\ trcalls' # trcalls) =>
          (/\ Done("reload_settings") /\ ~Constructed
           /\ m_main_thread = "new" /\ execute = "none")]_vars
  /\ []((kind = "cli" /\ m_main_thread # "new") =>
          (Done("reload_settings") /\ installed = Translators))

C24_Witness ==
  /\ kind = "cli" /\ Constructed
  /\ trcalls = MaxCalls /\ trcalls >= 2
  /\ installed = Translators /\ configured = 1

====
